---------------------------- MODULE Spec2Model ----------------------------
(***************************************************************************)
(* State-machine model of main.js (Kid's Clothing Co. storefront mockup):  *)
(* the cart kept in localStorage, the session-scoped user directory        *)
(* (sessionUsers), the session record kept in sessionStorage, and the      *)
(* asynchronous handlers that are suspended on a fixture fetch.            *)
(*                                                                         *)
(* JavaScript is single threaded: a handler runs to its next await, and    *)
(* another handler can run only while the first is suspended on a fetch.   *)
(* Every action below is one such run-to-suspension segment.               *)
(***************************************************************************)
EXTENDS Integers, Sequences, FiniteSets, Bags, TLC

(***************************************************************************)
(* Bounds of the model.                                                    *)
(***************************************************************************)
\* largest quantity a cart line may reach
MaxQty == 2
\* addToCart calls suspended on their product lookup at the same time
MaxInFlight == 2
\* lines a cart may hold
MaxLines == 3
\* register and login calls suspended on the user fixture at the same time
MaxUserCalls == 2
\* registrations that may succeed on one page
MaxRegistrations == 2

(***************************************************************************)
(* JavaScript values that the quantity of a call or of a line can take.    *)
(***************************************************************************)
Num(n) == [t |-> "num", n |-> n]
NaN == [t |-> "nan", n |-> 0]
Null == [t |-> "null", n |-> 0]

\* ToNumber: null converts to 0, NaN stays NaN
ToNumber(v) == IF v.t = "null" THEN Num(0) ELSE v

\* JsLeqZero with the test written as quantity < 0
JsLtZero(v) == ToNumber(v).t = "num" /\ ToNumber(v).n < 0

\* a <= 0 as JavaScript evaluates it (any comparison with NaN is false)
JsLeqZero(v) == ToNumber(v).t = "num" /\ ToNumber(v).n <= 0

\* a > 0 as JavaScript evaluates it
JsGtZero(v) == ToNumber(v).t = "num" /\ ToNumber(v).n > 0

\* a + b on numbers
JsAdd(a, b) ==
    IF ToNumber(a).t = "nan" \/ ToNumber(b).t = "nan" THEN NaN
    ELSE Num(ToNumber(a).n + ToNumber(b).n)

\* a * b on numbers
JsMul(a, b) ==
    IF ToNumber(a).t = "nan" \/ ToNumber(b).t = "nan" THEN NaN
    ELSE Num(ToNumber(a).n * ToNumber(b).n)

\* JSON.parse(JSON.stringify(v)) of a number: NaN is written as null
JsonNumber(v) == IF v.t = "nan" THEN Null ELSE v

\* the argument a caller leaves out (JavaScript undefined)
Absent == "<undefined>"

\* Falsy with the test written as size === undefined
FalsyUndefinedOnly(s) == s = Absent

\* !size
Falsy(s) == s = "" \/ s = Absent

(***************************************************************************)
(* Inputs.                                                                 *)
(***************************************************************************)
\* (product id, size) pairs of the calls, the ids as the DOM hands them over
\* (URL parameter, data attribute): the Tee ("1") comes in S and M, the Cap
\* ("2") in S, and "9" is the id of no product
KeyArgs == {<<"1", "S">>, <<"1", "M">>, <<"2", "S">>, <<"9", "S">>}
\* those of them that name a product
ProductKeyArgs == {k \in KeyArgs : k[1] # "9"}
\* the addToCart calls <<productId, quantity, size>> that pass the two checks
\* before the lookup: every product and size with quantity 1, the Tee in S
\* also with quantity 2 and with the NaN of an empty quantity input, and a
\* product that does not exist
AcceptedAdds ==
    {<<k[1], Num(1), k[2]>> : k \in KeyArgs}
        \cup {<<"1", Num(2), "S">>, <<"1", NaN, "S">>}
\* the addToCart calls that one of the two checks turns down
RejectedAdds ==
    {<<"1", Num(1), "">>, <<"1", NaN, Absent>>, <<"9", Num(2), "">>,
     <<"9", Num(0), Absent>>, <<"1", Num(0), "S">>, <<"2", Num(-1), "S">>,
     <<"9", Num(0), "S">>}
Prices == {10, 15}
ProductIds == {1, 2}

\* parseInt(id, 10) on the id strings above
ParseInt10(s) ==
    CASE s = "1" -> 1
      [] s = "2" -> 2
      [] s = "9" -> 9

VARIABLES
    productPrice,   \* data/products.json: the price of each product
    cartStore,      \* localStorage['shoppingCart']
    cartCalls,      \* addToCart calls suspended on fetchProductById
    badge,          \* textContent of #cart-item-count
    cartView,       \* the cart table (#cart-items-container, #cart-grand-total)
    snapshot,       \* history: price of a line's product when the line was inserted
    sessionUsers,   \* the in-memory user directory of the page
    sessionStore,   \* sessionStorage['currentUser']
    userCalls,      \* registerUser / loginUser calls suspended in fetchUsers
    navLoggedIn,    \* whether the navigation shows the account and logout links
    registered,     \* history: the registrations that succeeded in this tab
    returned,       \* what the last registerUser / loginUser call of the page returned
    displayCalls,   \* displayProducts(Details)OnPage calls suspended on fetchProducts
    navigation,     \* the page a `window.location.href = ...` is replacing this one by
    lastFailure     \* the last failure a handler reported (console.error, alert)

cartState == <<productPrice, cartStore, cartCalls, badge, cartView, snapshot>>
userState ==
    <<sessionUsers, sessionStore, userCalls, navLoggedIn, registered, returned>>
pageState == <<displayCalls, navigation>>
vars == <<cartState, userState, pageState, lastFailure>>

(***************************************************************************)
(* Product fixture.                                                        *)
(***************************************************************************)
ProductName(id) == IF id = 1 THEN "Tee" ELSE "Cap"

\* the parsed body of data/products.json
ProductsJson(price) ==
    [i \in 1..2 |-> [id |-> i, name |-> ProductName(i), price |-> price[i],
                     image_url |-> ProductName(i)]]

\* fetchProducts: the product list, or [] when the fetch fails
FetchProducts(ok, price) == IF ok THEN ProductsJson(price) ELSE <<>>

\* fetchProductById: products.find(p => p.id === parseInt(id, 10)) || null
FetchProductById(products, id) ==
    LET productId == ParseInt10(id)
        hits == {i \in 1..Len(products) : products[i].id = productId}
    IN  IF hits = {} THEN Null
        ELSE products[CHOOSE i \in hits : \A j \in hits : i <= j]

(***************************************************************************)
(* Cart store.                                                             *)
(***************************************************************************)
\* A store is [kind |-> "absent"] when the key is not set, [kind |-> "empty"]
\* when it holds the empty text, [kind |-> "json"] with the parsed value
\* when it holds what JSON.stringify wrote, and [kind |-> "corrupt"] when it
\* holds any other text, which is not JSON.

\* `text ? JSON.parse(text) : ...`: getItem gives null for a key that is not
\* set, and null and "" are falsy, so JSON.parse is not called on them
FalsyText(store) == store.kind \in {"absent", "empty"}

\* JSON.parse(text) throws a SyntaxError on a text that is not JSON
JsonParseThrows(store) == store.kind = "corrupt"

\* what a call evaluates to when JSON.parse throws in it: no value, the
\* exception leaves the call and every caller up to the event loop
Thrown == [t |-> "thrown", n |-> 0]

\* getCart: the parsed cart, [] when the key is absent or holds ""
GetCart(store) ==
    IF FalsyText(store) THEN <<>>
    ELSE IF JsonParseThrows(store) THEN Thrown
    ELSE store.lines

\* JSON.stringify(cart): what localStorage holds after saveCart
Stringify(cart) ==
    [i \in 1..Len(cart) |-> [cart[i] EXCEPT !.quantity = JsonNumber(@)]]

\* saveCart
SaveCart(cart) == [kind |-> "json", lines |-> Stringify(cart)]

\* FindIndex that compares the product id alone
FindIndexAnySize(cart, id, size) ==
    LET hits == {i \in 1..Len(cart) : cart[i].id = id}
    IN  IF hits = {} THEN 0 ELSE CHOOSE i \in hits : \A j \in hits : i <= j

\* cart.findIndex(item => item.id === id && item.size === size);
\* indices are 1-based here and 0 stands for JavaScript's -1
FindIndex(cart, id, size) ==
    LET hits == {i \in 1..Len(cart) : cart[i].id = id /\ cart[i].size = size}
    IN  IF hits = {} THEN 0 ELSE CHOOSE i \in hits : \A j \in hits : i <= j

\* Filter that drops the lines of the product in every size
FilterAnySize(cart, id, size) == SelectSeq(cart, LAMBDA item : item.id # id)

\* cart.filter(item => !(item.id === id && item.size === size))
RECURSIVE Filter(_, _, _)
Filter(cart, id, size) ==
    IF cart = <<>> THEN <<>>
    ELSE IF Head(cart).id = id /\ Head(cart).size = size
         THEN Filter(Tail(cart), id, size)
         ELSE <<Head(cart)>> \o Filter(Tail(cart), id, size)

\* Splice given the 1-based index where splice counts from 0
SpliceOffByOne(cart, i) == SubSeq(cart, 1, i) \o SubSeq(cart, i + 2, Len(cart))

\* cart.splice(i, 1)
Splice(cart, i) == SubSeq(cart, 1, i - 1) \o SubSeq(cart, i + 1, Len(cart))

NewLine(product, quantity, size) ==
    [id |-> product.id, name |-> product.name, price |-> product.price,
     image_url |-> product.image_url, quantity |-> quantity, size |-> size]

\* AddLine without the search for an existing line
AddLineAlwaysPush(cart, product, quantity, size) ==
    Append(cart, NewLine(product, quantity, size))

\* AddLine with `quantity = quantity` for `quantity += quantity`
AddLineReplace(cart, product, quantity, size) ==
    LET existingItemIndex == FindIndex(cart, product.id, size)
    IN  IF existingItemIndex > 0
        THEN [cart EXCEPT ![existingItemIndex].quantity = quantity]
        ELSE Append(cart, NewLine(product, quantity, size))

\* AddLine that also copies the product's current price onto an existing line
AddLineRefreshPrice(cart, product, quantity, size) ==
    LET existingItemIndex == FindIndex(cart, product.id, size)
    IN  IF existingItemIndex > 0
        THEN [cart EXCEPT ![existingItemIndex].quantity = JsAdd(@, quantity),
                          ![existingItemIndex].price = product.price]
        ELSE Append(cart, NewLine(product, quantity, size))

\* AddLine on the cart as it was before another call wrote it (here: empty)
AddLineOnStaleCart(cart, product, quantity, size) ==
    <<NewLine(product, quantity, size)>>

\* the body of addToCart after the product lookup, up to saveCart
AddLine(cart, product, quantity, size) ==
    LET existingItemIndex == FindIndex(cart, product.id, size)
    IN  IF existingItemIndex > 0
        THEN [cart EXCEPT ![existingItemIndex].quantity = JsAdd(@, quantity)]
        ELSE Append(cart, NewLine(product, quantity, size))

\* the cart that removeFromCart saves
RemoveLine(cart, productId, size) == Filter(cart, ParseInt10(productId), size)

\* the cart that updateCartQuantity leaves (the cart itself when no line matches)
SetQuantity(cart, productId, size, newQuantity) ==
    LET itemIndex == FindIndex(cart, ParseInt10(productId), size)
    IN  IF itemIndex > 0
        THEN IF JsGtZero(newQuantity)
             THEN [cart EXCEPT ![itemIndex].quantity = newQuantity]
             ELSE Splice(cart, itemIndex)
        ELSE cart

\* localStorage['shoppingCart'] after removeFromCart
RemovedStore(store, productId, size) ==
    SaveCart(RemoveLine(GetCart(store), productId, size))

\* localStorage['shoppingCart'] after updateCartQuantity, which saves the cart
\* only when a line matches
UpdatedStore(store, productId, size, newQuantity) ==
    IF FindIndex(GetCart(store), ParseInt10(productId), size) > 0
    THEN SaveCart(SetQuantity(GetCart(store), productId, size, newQuantity))
    ELSE store

\* getCartTotal: reduce((total, item) => total + item.price * item.quantity, 0)
RECURSIVE Reduce(_, _)
Reduce(cart, total) ==
    IF cart = <<>> THEN total
    ELSE Reduce(Tail(cart), JsAdd(total, JsMul(Num(Head(cart).price), Head(cart).quantity)))

GetCartTotal(store) == Reduce(GetCart(store), Num(0))

\* Count that counts the lines where it should sum their quantities
CountLines(cart, sum) == JsAdd(sum, Num(Len(cart)))

\* updateCartIconCount: reduce((sum, item) => sum + item.quantity, 0)
RECURSIVE Count(_, _)
Count(cart, sum) ==
    IF cart = <<>> THEN sum ELSE Count(Tail(cart), JsAdd(sum, Head(cart).quantity))

ItemCount(store) == Count(GetCart(store), Num(0))

(***************************************************************************)
(* The cart table.                                                         *)
(***************************************************************************)
\* the page has no #cart-items-container
NoView == [mounted |-> FALSE, rows |-> <<>>, total |-> Num(0)]

\* what the HTML file puts into an element that no script has written yet
Static == [t |-> "static", n |-> 0]

\* displayCartItems: one row per line of getCart() with the line's product,
\* size, price and quantity, and getCartTotal() in #cart-grand-total; no row
\* and 0.00 for an empty cart
DisplayCartItems(store) ==
    [mounted |-> TRUE,
     rows |-> [i \in 1..Len(GetCart(store)) |->
                 [id |-> GetCart(store)[i].id, name |-> GetCart(store)[i].name,
                  size |-> GetCart(store)[i].size, price |-> GetCart(store)[i].price,
                  quantity |-> GetCart(store)[i].quantity]],
     total |-> IF Len(GetCart(store)) = 0 THEN Num(0) ELSE GetCartTotal(store)]

\* the cart table after a handler ran `if (document.getElementById(
\* 'cart-items-container')) displayCartItems()`
Rerendered(view, store) == IF view.mounted THEN DisplayCartItems(store) ELSE view

(***************************************************************************)
(* History of insertions, for the price a line was inserted at.            *)
(***************************************************************************)
Keys == {<<ParseInt10(k[1]), k[2]>> : k \in KeyArgs}

\* the snapshot after cart `before` became cart `after`: the price of every
\* key that gained a line, nothing for a key that has no line any more
Snap(old, before, after, price) ==
    [k \in Keys |->
        IF \A i \in 1..Len(after) : <<after[i].id, after[i].size>> # k THEN 0
        ELSE IF \A i \in 1..Len(before) : <<before[i].id, before[i].size>> # k
             THEN price[k[1]]
        ELSE old[k]]

\* the largest numeric quantity of a cart (0 when it has none)
MaxQuantity(cart) ==
    LET qs == {cart[i].quantity.n : i \in 1..Len(cart)} \cup {0}
    IN  CHOOSE q \in qs : \A r \in qs : r <= q

\* what the console shows when the SyntaxError of JSON.parse leaves a handler
UncaughtSyntaxError == "Uncaught SyntaxError"

(***************************************************************************)
(* Initial state: a fresh browser profile opening the page.                *)
(***************************************************************************)
Init ==
    /\ productPrice = [i \in ProductIds |-> 10]
    /\ cartStore = [kind |-> "absent", lines |-> <<>>]
    /\ cartCalls = EmptyBag
    /\ badge = ItemCount(cartStore)
    /\ cartView = NoView
    /\ snapshot = [k \in Keys |-> 0]
    /\ sessionUsers = <<>>
    /\ sessionStore = [kind |-> "absent"]
    /\ userCalls = <<>>
    /\ navLoggedIn = FALSE
    /\ registered = <<>>
    /\ returned = "none"
    /\ displayCalls = 0
    /\ navigation = "none"
    /\ lastFailure = "none"

(***************************************************************************)
(* Environment: data/products.json is edited between two fetches.          *)
(***************************************************************************)
ChangePrice(id, p) ==
    /\ productPrice[id] # p
    /\ productPrice' = [productPrice EXCEPT ![id] = p]
    /\ UNCHANGED <<cartStore, cartCalls, badge, cartView, snapshot, userState, pageState,
                   lastFailure>>

(***************************************************************************)
(* addToCart, up to its await.                                             *)
(***************************************************************************)
AddToCartCall(productId, quantity, size) ==
    IF Falsy(size)
    THEN /\ lastFailure' = "Please select a size."
         /\ UNCHANGED <<cartState, userState, pageState>>
    ELSE IF JsLeqZero(quantity)
    THEN /\ lastFailure' = "Quantity must be positive"
         /\ UNCHANGED <<cartState, userState, pageState>>
    ELSE /\ BagCardinality(cartCalls) < MaxInFlight
         /\ cartCalls' = cartCalls (+) SetToBag(
                {[productId |-> productId, quantity |-> quantity, size |-> size]})
         /\ UNCHANGED <<productPrice, cartStore, badge, cartView, snapshot, userState, pageState,
                        lastFailure>>

(***************************************************************************)
(* addToCart, from the resolution of fetchProductById to its return.       *)
(* ok: whether the fetch of data/products.json succeeded.                  *)
(***************************************************************************)
AddToCartResume(call, ok) ==
    /\ BagIn(call, cartCalls)
    /\ LET product == FetchProductById(FetchProducts(ok, productPrice), call.productId)
           cart == GetCart(cartStore)
           after == AddLine(cart, product, call.quantity, call.size)
       IN  /\ cartCalls' = cartCalls (-) SetToBag({call})
           /\ IF product = Null
              THEN /\ lastFailure' = "Attempted to add non-existent product"
                   /\ UNCHANGED <<productPrice, cartStore, badge, cartView, snapshot,
                                  userState, pageState>>
              ELSE IF JsonParseThrows(cartStore)
              THEN /\ lastFailure' = UncaughtSyntaxError
                   /\ UNCHANGED <<productPrice, cartStore, badge, cartView, snapshot,
                                  userState, pageState>>
              ELSE /\ MaxQuantity(after) <= MaxQty
                   /\ Len(after) <= MaxLines
                   /\ cartStore' = SaveCart(after)
                   /\ badge' = ItemCount(SaveCart(after))
                   /\ snapshot' = Snap(snapshot, cart, after, productPrice)
                   /\ UNCHANGED <<productPrice, cartView, userState, pageState, lastFailure>>

(***************************************************************************)
(* removeFromCart                                                          *)
(***************************************************************************)
RemoveFromCart(productId, size) ==
    LET after == RemovedStore(cartStore, productId, size)
    IN  IF JsonParseThrows(cartStore)
        THEN /\ lastFailure' = UncaughtSyntaxError
             /\ UNCHANGED <<cartState, userState, pageState>>
        ELSE /\ cartStore' = after
             /\ badge' = ItemCount(after)
             /\ cartView' = Rerendered(cartView, after)
             /\ snapshot' = Snap(snapshot, GetCart(cartStore), GetCart(after), productPrice)
             /\ UNCHANGED <<productPrice, cartCalls, userState, pageState, lastFailure>>

(***************************************************************************)
(* updateCartQuantity                                                      *)
(***************************************************************************)
UpdateCartQuantity(productId, size, newQuantity) ==
    LET itemIndex == FindIndex(GetCart(cartStore), ParseInt10(productId), size)
        after == UpdatedStore(cartStore, productId, size, newQuantity)
    IN  IF JsonParseThrows(cartStore)
        THEN /\ lastFailure' = UncaughtSyntaxError
             /\ UNCHANGED <<cartState, userState, pageState>>
        ELSE IF itemIndex > 0
        THEN /\ cartStore' = after
             /\ badge' = ItemCount(after)
             /\ cartView' = Rerendered(cartView, after)
             /\ snapshot' = Snap(snapshot, GetCart(cartStore), GetCart(after), productPrice)
             /\ UNCHANGED <<productPrice, cartCalls, userState, pageState, lastFailure>>
        ELSE /\ lastFailure' = "Item not found for update"
             /\ cartView' = Rerendered(cartView, cartStore)
             /\ UNCHANGED <<productPrice, cartStore, cartCalls, badge, snapshot,
                            userState, pageState>>

\* parseInt of the cart table's quantity input
NewQuantityArgs == {NaN, Num(-1), Num(0)} \cup {Num(q) : q \in 1..MaxQty}

(***************************************************************************)
(* The cart handlers with a fixed product fixture.                         *)
(***************************************************************************)
CartNext ==
    \/ \E a \in AcceptedAdds : AddToCartCall(a[1], a[2], a[3])
    \/ \E a \in RejectedAdds : AddToCartCall(a[1], a[2], a[3])
    \/ \E call \in BagToSet(cartCalls), ok \in BOOLEAN : AddToCartResume(call, ok)
    \/ \E k \in KeyArgs : RemoveFromCart(k[1], k[2])
    \/ \E k \in ProductKeyArgs, newQuantity \in NewQuantityArgs :
          UpdateCartQuantity(k[1], k[2], newQuantity)
    \/ UpdateCartQuantity("9", "S", Num(1))

SpecCart == Init /\ [][CartNext]_vars

(***************************************************************************)
(* The cart handlers, one addToCart in flight at a time, while the shop    *)
(* edits the price of the Tee in data/products.json.                       *)
(***************************************************************************)
PriceNext ==
    \/ \E p \in Prices : ChangePrice(1, p)
    \/ CartNext /\ BagCardinality(cartCalls') <= 1

SpecPrice == Init /\ [][PriceNext]_vars

(***************************************************************************)
(* Properties of the cart.                                                 *)
(***************************************************************************)
Cart == GetCart(cartStore)

\* the indices of the lines of `cart` for product `id` in size `size`
LinesOf(cart, id, size) ==
    {i \in 1..Len(cart) : cart[i].id = id /\ cart[i].size = size}

\* C1: in every state reachable by addToCart, removeFromCart and
\* updateCartQuantity calls, with addToCart calls suspended and resumed in any
\* order, the persisted cart holds at most one line per (product id, size).
C1_OneLinePerProductAndSize ==
    \A i, j \in 1..Len(Cart) :
        (Cart[i].id = Cart[j].id /\ Cart[i].size = Cart[j].size) => i = j

\* three lines, one of which a second addToCart has incremented
C1_Witness ==
    /\ Len(Cart) = 3
    /\ \E i \in 1..Len(Cart) : Cart[i].quantity = Num(2)
    /\ BagCardinality(cartCalls) = 1

\* C2: an addToCart of a positive quantity q for an existing product, once its
\* lookup has succeeded, leaves exactly one line for (product, size): with
\* quantity q when the cart had no such line, and with quantity n + q when it
\* had one of quantity n.  Hence addToCart(P, q1, s) and then addToCart(P, q2, s)
\* on a cart without that line give one line of quantity q1 + q2.
C2_AddTwiceIncrements ==
    [][\A call \in BagToSet(cartCalls) :
          (/\ AddToCartResume(call, TRUE)
           /\ call.productId \in {"1", "2"}
           /\ call.quantity.t = "num" /\ call.quantity.n > 0)
          => LET id == ParseInt10(call.productId)
                 before == LinesOf(Cart, id, call.size)
                 after == LinesOf(GetCart(cartStore'), id, call.size)
             IN  /\ Cardinality(after) = 1
                 /\ \A j \in after :
                      /\ before = {} => GetCart(cartStore')[j].quantity = call.quantity
                      /\ \A i \in before :
                            Cart[i].quantity.t = "num" =>
                               GetCart(cartStore')[j].quantity =
                                   Num(Cart[i].quantity.n + call.quantity.n)
      ]_vars

\* the cart is the single line (Tee, S) with quantity 2 = 1 + 1
C2_Witness ==
    /\ Len(Cart) = 1
    /\ Cart[1].id = 1 /\ Cart[1].size = "S" /\ Cart[1].quantity = Num(2)
    /\ badge = Num(2)
    /\ cartCalls = EmptyBag

\* C3: every line of the persisted cart has an integer quantity >= 1, for
\* every quantity the handlers pass, the NaN of an empty quantity input
\* included.
C3_QuantityAtLeastOne ==
    \A i \in 1..Len(Cart) : Cart[i].quantity.t = "num" /\ Cart[i].quantity.n >= 1

\* C4: for every (id, size) and every newQuantity <= 0, updateCartQuantity and
\* removeFromCart leave the same cart sequence, whether a line matches or not.
C4_UpdateToZeroIsRemove ==
    \A k \in KeyArgs, newQuantity \in {Num(0), Num(-1)} :
        GetCart(UpdatedStore(cartStore, k[1], k[2], newQuantity))
            = GetCart(RemovedStore(cartStore, k[1], k[2]))

\* a cart of two lines, updateCartQuantity has just missed a line, and both
\* operations would delete the same line of it
C4_Witness ==
    /\ Len(Cart) = 2
    /\ lastFailure = "Item not found for update"
    /\ \E k \in KeyArgs :
          /\ Len(GetCart(UpdatedStore(cartStore, k[1], k[2], Num(0)))) = 1
          /\ Len(GetCart(RemovedStore(cartStore, k[1], k[2]))) = 1

\* the quantity of a stored line as a number (null counts as 0)
RECURSIVE SnapshotSum(_, _)
SnapshotSum(cart, snap) ==
    IF cart = <<>> THEN 0
    ELSE snap[<<Head(cart).id, Head(cart).size>>] * ToNumber(Head(cart).quantity).n
         + SnapshotSum(Tail(cart), snap)

\* C5: getCartTotal is the sum over the lines of the price the product had when
\* the line was inserted times the line's quantity, and 0 for an empty cart,
\* whatever the fixture price has become since and whether or not a later
\* addToCart incremented the line.
C5_TotalUsesSnapshotPrice ==
    /\ GetCartTotal(cartStore) = Num(SnapshotSum(Cart, snapshot))
    /\ Cart = <<>> => GetCartTotal(cartStore) = Num(0)

\* the Tee costs 15 now; its S line was inserted at 10 and has quantity 2,
\* its M line was inserted at 15
C5_Witness ==
    /\ productPrice[1] = 15
    /\ \E i, j \in 1..Len(Cart) :
          /\ Cart[i].id = 1 /\ Cart[i].size = "S" /\ Cart[i].quantity = Num(2)
          /\ snapshot[<<1, "S">>] = 10
          /\ Cart[j].id = 1 /\ Cart[j].size = "M"
          /\ snapshot[<<1, "M">>] = 15
    /\ GetCartTotal(cartStore).n >= 35

\* C6: addToCart with an empty or absent size reports the missing size and
\* leaves the persisted cart as it was, and starts no product lookup, for
\* every product id and quantity and however often it is repeated.
C6_MissingSizeLeavesCart ==
    [][\A a \in RejectedAdds :
          (AddToCartCall(a[1], a[2], a[3]) /\ a[3] \in {"", Absent})
          => /\ cartStore' = cartStore
             /\ cartCalls' = cartCalls
             /\ lastFailure' = "Please select a size."
      ]_vars

\* a call without a size was rejected on a cart that holds lines
C6_Witness ==
    /\ lastFailure = "Please select a size."
    /\ Len(Cart) >= 2
    /\ cartCalls = EmptyBag

\* C7: addToCart with a size fails and leaves the persisted cart as it was when
\* the quantity is <= 0 (no lookup is started) and when the lookup finds no
\* product, be it for an unknown id or because the fetch failed; the failed
\* lookup ends in the reported failure, never in a fault.
C7_BadQuantityOrProductLeavesCart ==
    [][/\ \A a \in RejectedAdds :
             (/\ AddToCartCall(a[1], a[2], a[3])
              /\ a[3] \in {"S", "M"}
              /\ a[2].t = "num" /\ a[2].n <= 0)
             => /\ cartStore' = cartStore
                /\ cartCalls' = cartCalls
                /\ lastFailure' = "Quantity must be positive"
       /\ \A call \in BagToSet(cartCalls), ok \in BOOLEAN :
             (AddToCartResume(call, ok) /\ (~ok \/ call.productId = "9"))
             => /\ cartStore' = cartStore
                /\ lastFailure' = "Attempted to add non-existent product"
      ]_vars

\* the lookup of an addToCart found no product, on a cart that holds lines
C7_Witness ==
    /\ lastFailure = "Attempted to add non-existent product"
    /\ Len(Cart) >= 2

(***************************************************************************)
(* User fixture and inputs.  A user is modelled by the fields the handlers *)
(* decide on (id, email, password); name and address are carried along     *)
(* unread by registerUser and loginUser.                                   *)
(***************************************************************************)
\* the parsed body of data/users.json
UsersJson ==
    << [id |-> 5, email |-> "ann@x", password |-> "pw5"],
       [id |-> 2, email |-> "bob@x", password |-> "pw2"] >>

EmailArgs == {"ann@x", "cat@x", "dan@x"}
PasswordArgs == {"pw5", "pw"}

\* getCurrentUser
GetCurrentUser(store) ==
    IF FalsyText(store) THEN Null
    ELSE IF JsonParseThrows(store) THEN Thrown
    ELSE store.user

\* saveCurrentUser
SaveCurrentUser(userData) == [kind |-> "json", user |-> userData]

\* ClearCurrentUser that writes null under the key: setItem(key, "null")
ClearCurrentUserSetNull(store) == [kind |-> "json", user |-> Null]

\* clearCurrentUser: sessionStorage.removeItem
ClearCurrentUser(store) == [kind |-> "absent"]

\* updateUserNav: the account and logout links show when a user is stored
UpdateUserNav(store) == GetCurrentUser(store) # Null

\* the tail of fetchUsers: what it assigns to sessionUsers and returns,
\* [...users] when the fetch succeeded and [] when it failed
FetchedUsers(ok) == IF ok THEN UsersJson ELSE <<>>

\* users.find(user => user.email === email), null standing for undefined
FindUser(users, email) ==
    LET hits == {i \in 1..Len(users) : users[i].email = email}
    IN  IF hits = {} THEN Null
        ELSE users[CHOOSE i \in hits : \A j \in hits : i <= j]

\* Math.max(...users.map(u => u.id)) of a non-empty list
MaxId(users) ==
    LET ids == {users[i].id : i \in 1..Len(users)}
    IN  CHOOSE m \in ids : \A x \in ids : x <= m

\* the id registerUser gives the new user
NewUserId(users) == IF Len(users) > 0 THEN MaxId(users) + 1 ELSE 1

(***************************************************************************)
(* The submit listener of the registration form from the return of         *)
(* `await fetchUsers()` in registerUser to its own end: registerUser       *)
(* returns, and on true the listener starts the navigation to              *)
(* account.html.  users: what fetchUsers returned; directory: sessionUsers *)
(* at that moment; failure: the last failure reported so far; how, seen:   *)
(* history of the call.                                                    *)
(***************************************************************************)
RegisterTail(users, directory, email, password, failure, how, seen) ==
    IF FindUser(users, email) # Null
    THEN /\ lastFailure' = "Email already exists."
         /\ sessionUsers' = directory
         /\ returned' = "false"
         /\ UNCHANGED <<sessionStore, navLoggedIn, registered, navigation>>
    ELSE LET newUser == [id |-> NewUserId(users), email |-> email,
                         password |-> password]
         IN  /\ Len(registered) < MaxRegistrations
             /\ sessionUsers' = Append(directory, newUser)
             /\ sessionStore' = SaveCurrentUser(newUser)
             /\ navLoggedIn' = UpdateUserNav(SaveCurrentUser(newUser))
             /\ registered' = Append(registered,
                    [email |-> email, id |-> newUser.id, how |-> how, seen |-> seen])
             /\ lastFailure' = failure
             /\ returned' = "true"
             /\ navigation' = "account.html"

\* loginUser: `user && user.password === password`
Authenticates(users, email, password) ==
    /\ FindUser(users, email) # Null
    /\ FindUser(users, email).password = password

\* LoginTail that tells a wrong password from an unknown email
LoginTailLeaky(users, directory, email, password, failure) ==
    LET user == FindUser(users, email)
    IN  /\ sessionUsers' = directory
        /\ UNCHANGED registered
        /\ IF Authenticates(users, email, password)
           THEN /\ sessionStore' = SaveCurrentUser(user)
                /\ navLoggedIn' = UpdateUserNav(SaveCurrentUser(user))
                /\ lastFailure' = failure
                /\ returned' = "true"
                /\ navigation' = "account.html"
           ELSE /\ lastFailure' = IF user # Null THEN "Wrong password."
                                  ELSE "Invalid email or password."
                /\ returned' = "false"
                /\ UNCHANGED <<sessionStore, navLoggedIn, navigation>>

\* LoginTail that keeps the session record it finds: the first write wins
LoginTailFirstWins(users, directory, email, password, failure) ==
    LET user == FindUser(users, email)
        kept == IF sessionStore.kind = "absent" THEN SaveCurrentUser(user)
                ELSE sessionStore
    IN  /\ sessionUsers' = directory
        /\ UNCHANGED registered
        /\ IF Authenticates(users, email, password)
           THEN /\ sessionStore' = kept
                /\ navLoggedIn' = UpdateUserNav(kept)
                /\ lastFailure' = failure
                /\ returned' = "true"
                /\ navigation' = "account.html"
           ELSE /\ lastFailure' = "Invalid email or password."
                /\ returned' = "false"
                /\ UNCHANGED <<sessionStore, navLoggedIn, navigation>>

(***************************************************************************)
(* The submit listener of the login form from the return of                *)
(* `await fetchUsers()` in loginUser to its own end: loginUser returns,    *)
(* and on true the listener starts the navigation to account.html.         *)
(***************************************************************************)
LoginTail(users, directory, email, password, failure) ==
    LET user == FindUser(users, email)
    IN  /\ sessionUsers' = directory
        /\ UNCHANGED registered
        /\ IF Authenticates(users, email, password)
           THEN /\ sessionStore' = SaveCurrentUser(user)
                /\ navLoggedIn' = UpdateUserNav(SaveCurrentUser(user))
                /\ lastFailure' = failure
                /\ returned' = "true"
                /\ navigation' = "account.html"
           ELSE /\ lastFailure' = "Invalid email or password."
                /\ returned' = "false"
                /\ UNCHANGED <<sessionStore, navLoggedIn, navigation>>

(***************************************************************************)
(* The submit listener of the registration form when the two passwords     *)
(* differ: it reports that and does not call registerUser.                 *)
(***************************************************************************)
PasswordsDoNotMatch(password, confirmPassword) ==
    /\ password # confirmPassword
    /\ lastFailure' = "Passwords do not match."
    /\ UNCHANGED <<cartState, userState, pageState>>

(***************************************************************************)
(* The submit listeners (the registration form's with two equal           *)
(* passwords) when fetchUsers finds sessionUsers filled: no fetch is made  *)
(* and the listener runs to its end.                                       *)
(***************************************************************************)
RegisterUserCached(email, password) ==
    /\ Len(sessionUsers) > 0
    /\ RegisterTail(sessionUsers, sessionUsers, email, password, lastFailure,
                    "cached", Len(registered))
    /\ UNCHANGED <<cartState, displayCalls, userCalls>>

LoginUserCached(email, password) ==
    /\ Len(sessionUsers) > 0
    /\ LoginTail(sessionUsers, sessionUsers, email, password, lastFailure)
    /\ UNCHANGED <<cartState, displayCalls, userCalls>>

(***************************************************************************)
(* registerUser and loginUser when sessionUsers is empty: the call is      *)
(* suspended on fetch('data/users.json').                                  *)
(***************************************************************************)
UserCallSuspend(op, email, password) ==
    /\ Len(sessionUsers) = 0
    /\ Len(userCalls) < MaxUserCalls
    /\ userCalls' = Append(userCalls,
            [op |-> op, email |-> email, password |-> password,
             seen |-> Len(registered)])
    /\ UNCHANGED <<cartState, pageState, sessionUsers, sessionStore, navLoggedIn,
                   registered, returned, lastFailure>>

(***************************************************************************)
(* The fetch of a suspended call ends (ok: with the user list): fetchUsers *)
(* assigns sessionUsers and the call runs to its end.                      *)
(***************************************************************************)
UserCallResume(n, ok) ==
    /\ n \in 1..Len(userCalls)
    /\ LET call == userCalls[n]
           users == FetchedUsers(ok)
           failure == IF ok THEN lastFailure ELSE "Could not fetch users"
       IN  /\ userCalls' = Splice(userCalls, n)
           /\ IF call.op = "register"
              THEN RegisterTail(users, users, call.email, call.password, failure,
                                IF ok THEN "fetched" ELSE "fetch failed", call.seen)
              ELSE LoginTail(users, users, call.email, call.password, failure)
    /\ UNCHANGED <<cartState, displayCalls>>

UserNext ==
    \/ \E confirmPassword \in PasswordArgs : PasswordsDoNotMatch("pw", confirmPassword)
    \/ \E email \in EmailArgs : RegisterUserCached(email, "pw")
    \/ \E email \in EmailArgs, password \in PasswordArgs :
          LoginUserCached(email, password)
    \/ \E email \in EmailArgs : UserCallSuspend("register", email, "pw")
    \/ \E email \in EmailArgs, password \in PasswordArgs :
          UserCallSuspend("login", email, password)
    \/ \E n \in 1..MaxUserCalls, ok \in BOOLEAN : UserCallResume(n, ok)

SpecUsers == Init /\ [][UserNext]_vars

(***************************************************************************)
(* Properties of the user directory.                                       *)
(***************************************************************************)
FixtureEmails == {UsersJson[i].email : i \in 1..Len(UsersJson)}
RegisteredEmails == {registered[i].email : i \in 1..Len(registered)}

\* the step ends a registerUser call for `email`
RegisterEnds(email) ==
    \/ RegisterUserCached(email, "pw")
    \/ \E n \in 1..Len(userCalls), ok \in BOOLEAN :
          /\ userCalls[n].op = "register" /\ userCalls[n].email = email
          /\ UserCallResume(n, ok)

\* C8: in every reachable state of a page, a registerUser call with the email
\* of a fixture user or of a user registered earlier on the page fails: it
\* reports the duplicate, registers nobody and leaves the session record.
C8_DuplicateEmailRejected ==
    [][\A email \in EmailArgs :
          (email \in FixtureEmails \cup RegisteredEmails /\ RegisterEnds(email))
          => /\ lastFailure' = "Email already exists."
             /\ registered' = registered
             /\ Len(sessionUsers') <= Len(UsersJson) + Len(registered)
             /\ sessionStore' = sessionStore
      ]_vars

\* C9: a registration gets an id above the id of every registration that had
\* succeeded on the page before it was called (5 in the fixture gives 6, then
\* 7), and no two users of the directory share an id.
C9_SequentialIdsIncrease ==
    /\ \A i \in 1..Len(registered) :
          \A j \in 1..registered[i].seen : registered[j].id < registered[i].id
    /\ \A i, j \in 1..Len(sessionUsers) :
          sessionUsers[i].id = sessionUsers[j].id => i = j

\* C10: when a registerUser call succeeds after its fetch, every registration
\* with another email that was suspended on the fetch together with it and
\* succeeded first has another id than the new user, and both users are in
\* the directory.
C10_OverlappingRegistrationsKept ==
    [][\A n \in 1..Len(userCalls) :
          (/\ userCalls[n].op = "register"
           /\ UserCallResume(n, TRUE)
           /\ Len(registered') > Len(registered))
          => \A j \in (userCalls[n].seen + 1)..Len(registered) :
                (registered[j].how = "fetched" /\ registered[j].email # userCalls[n].email)
                => LET first == registered[j]
                       second == registered'[Len(registered')]
                   IN  /\ first.id # second.id
                       /\ \E i \in 1..Len(sessionUsers') :
                             /\ sessionUsers'[i].email = first.email
                             /\ sessionUsers'[i].id = first.id
                       /\ \E i \in 1..Len(sessionUsers') :
                             /\ sessionUsers'[i].email = second.email
                             /\ sessionUsers'[i].id = second.id
      ]_vars

(***************************************************************************)
(* Page load.  A navigation (a link, a redirect of a handler, a reload)    *)
(* replaces the document: the script runs again, so sessionUsers is [] and *)
(* the calls suspended in the old document never resume; localStorage and  *)
(* sessionStorage stay.  The DOMContentLoaded listener then starts the     *)
(* product display if the page has a product container, renders the cart   *)
(* table if the page has one, shows the account details if the page has    *)
(* #account-details, and writes the badge and the navigation, in this      *)
(* order; a SyntaxError of JSON.parse ends the listener, and what it has   *)
(* not written yet shows what the HTML file holds.                         *)
(***************************************************************************)
\* a page by the elements the listener looks for: #cart-items-container,
\* #account-details, and a product container whose display function fetches
\* the products (#product-listing-container, or #product-detail-container
\* with an id in the URL)
Page(cart, account, products) ==
    [cart |-> cart, account |-> account, products |-> products]

PlainPage == Page(FALSE, FALSE, FALSE)
CartPage == Page(TRUE, FALSE, FALSE)
AccountPage == Page(FALSE, TRUE, FALSE)
ProductsPage == Page(FALSE, FALSE, TRUE)

\* login.html, where displayAccountDetails sends a visitor without session
\* record: a page with the login form
LoginPage == PlainPage

\* index.html, where logoutUser sends the visitor; it may have a product
\* container
IndexPages == {PlainPage, ProductsPage}

\* displayAccountDetails is reached, finds no current user and starts the
\* navigation to login.html; the listener runs on
Redirects(page, cart, session) ==
    /\ page.account
    /\ ~(page.cart /\ JsonParseThrows(cart))
    /\ ~JsonParseThrows(session)
    /\ GetCurrentUser(session) = Null

LoadedView(store, mounted) ==
    IF ~mounted THEN NoView
    ELSE IF JsonParseThrows(store)
    THEN [mounted |-> TRUE, rows |-> <<>>, total |-> Static]
    ELSE DisplayCartItems(store)

\* updateCartIconCount is reached unless displayCartItems or
\* displayAccountDetails has thrown, and throws itself on a cart that is not
\* JSON
LoadedBadge(page, cart, session) ==
    IF JsonParseThrows(cart) \/ (page.account /\ JsonParseThrows(session))
    THEN Static
    ELSE ItemCount(cart)

\* the values the navigation can show after the listener
LoadedNavs(cart, session) ==
    IF JsonParseThrows(cart) \/ JsonParseThrows(session) THEN BOOLEAN
    ELSE {UpdateUserNav(session)}

LoadedFailure(cart, session) ==
    IF JsonParseThrows(cart) \/ JsonParseThrows(session) THEN UncaughtSyntaxError
    ELSE "none"

\* the document of `page` replaces the current one while sessionStorage
\* holds `session`
LoadedNavigation(page, cart, session) ==
    IF Redirects(page, cart, session) THEN "login.html" ELSE "none"

\* the user opens `page` (a link, a reload, the address bar): its document
\* replaces the current one and the listener runs
PageLoad(page) ==
    /\ sessionUsers' = <<>>
    /\ userCalls' = <<>>
    /\ cartCalls' = EmptyBag
    /\ displayCalls' = IF page.products THEN 1 ELSE 0
    /\ cartView' = LoadedView(cartStore, page.cart)
    /\ badge' = LoadedBadge(page, cartStore, sessionStore)
    /\ navLoggedIn' \in LoadedNavs(cartStore, sessionStore)
    /\ navigation' = LoadedNavigation(page, cartStore, sessionStore)
    /\ returned' = "none"
    /\ lastFailure' = LoadedFailure(cartStore, sessionStore)
    /\ UNCHANGED <<productPrice, cartStore, snapshot, sessionStore, registered>>

\* the pages a started navigation can load
NavigationTargets(target) ==
    CASE target = "index.html" -> IndexPages
      [] target = "login.html" -> {LoginPage}
      [] target = "account.html" -> {AccountPage}

\* a navigation that a handler has started replaces the document; until
\* then the old document is live and its suspended calls can resume
Navigate ==
    /\ navigation # "none"
    /\ \E page \in NavigationTargets(navigation) : PageLoad(page)

(***************************************************************************)
(* displayProductsOnPage / displayProductDetailsOnPage after their await:  *)
(* fetchProducts reports a fetch that failed; the product container is not *)
(* part of the state.                                                      *)
(***************************************************************************)
DisplayProductsResume(ok) ==
    /\ displayCalls > 0
    /\ displayCalls' = displayCalls - 1
    /\ lastFailure' = IF ok THEN lastFailure ELSE "Could not fetch products"
    /\ UNCHANGED <<cartState, userState, navigation>>

(***************************************************************************)
(* logoutUser: clearCurrentUser, updateUserNav, and its last statement     *)
(* starts the navigation to index.html, which Navigate completes.          *)
(***************************************************************************)
LogoutUser ==
    /\ sessionStore' = ClearCurrentUser(sessionStore)
    /\ navLoggedIn' = UpdateUserNav(ClearCurrentUser(sessionStore))
    /\ navigation' = "index.html"
    /\ UNCHANGED <<cartState, sessionUsers, userCalls, registered, returned,
                   displayCalls, lastFailure>>

(***************************************************************************)
(* A tab opened on a browser profile that has stored values already.       *)
(***************************************************************************)
\* a cart line as an earlier page wrote it
StoredLine(id, size, q) ==
    NewLine(ProductsJson([i \in ProductIds |-> 10])[id], Num(q), size)

AbsentCart == [kind |-> "absent", lines |-> <<>>]
EmptyCart == [kind |-> "empty", lines |-> <<>>]
CorruptCart == [kind |-> "corrupt", lines |-> <<>>]
\* values of localStorage['shoppingCart'] that saveCart wrote
StoredCarts ==
    {SaveCart(<<>>), SaveCart(<<StoredLine(2, "S", 1), StoredLine(1, "S", 2)>>)}

AbsentSession == [kind |-> "absent"]
EmptySession == [kind |-> "empty"]
CorruptSession == [kind |-> "corrupt"]

\* the state after the tab's first page load
Opened(carts, sessions, pages) ==
    /\ productPrice = [i \in ProductIds |-> 10]
    /\ cartStore \in carts
    /\ sessionStore \in sessions
    /\ cartCalls = EmptyBag
    /\ \E page \in pages :
          /\ cartView = LoadedView(cartStore, page.cart)
          /\ badge = LoadedBadge(page, cartStore, sessionStore)
          /\ displayCalls = IF page.products THEN 1 ELSE 0
          /\ navigation = LoadedNavigation(page, cartStore, sessionStore)
    /\ snapshot = [k \in Keys |->
          IF JsonParseThrows(cartStore) \/ FindIndex(GetCart(cartStore), k[1], k[2]) = 0
          THEN 0
          ELSE GetCart(cartStore)[FindIndex(GetCart(cartStore), k[1], k[2])].price]
    /\ sessionUsers = <<>>
    /\ userCalls = <<>>
    /\ navLoggedIn \in LoadedNavs(cartStore, sessionStore)
    /\ registered = <<>>
    /\ returned = "none"
    /\ lastFailure = LoadedFailure(cartStore, sessionStore)

(***************************************************************************)
(* The user handlers, logout and page loads (among them the account page   *)
(* and pages that display products), one register or login call suspended  *)
(* at a time, on a profile that may hold a cart.                           *)
(***************************************************************************)
SessionPages == {PlainPage, AccountPage, ProductsPage}

InitSession ==
    Opened({AbsentCart, SaveCart(<<StoredLine(1, "S", 1)>>)}, {AbsentSession},
           SessionPages)

SessionNext ==
    \/ UserNext /\ Len(userCalls') <= 1
    \/ LogoutUser
    \/ Navigate
    \/ \E page \in SessionPages : PageLoad(page)
    \/ \E ok \in BOOLEAN : DisplayProductsResume(ok)

SpecSession == InitSession /\ [][SessionNext]_vars

(***************************************************************************)
(* The cart handlers and page loads, with and without cart table, one      *)
(* addToCart suspended at a time, on a profile that may hold a cart.       *)
(***************************************************************************)
ViewPages == {PlainPage, CartPage}

InitView == Opened({AbsentCart} \cup StoredCarts, {AbsentSession}, ViewPages)

ViewNext ==
    \/ \E a \in AcceptedAdds :
          AddToCartCall(a[1], a[2], a[3]) /\ BagCardinality(cartCalls') <= 1
    \/ \E call \in BagToSet(cartCalls), ok \in BOOLEAN : AddToCartResume(call, ok)
    \/ \E k \in KeyArgs : RemoveFromCart(k[1], k[2])
    \/ \E k \in ProductKeyArgs, newQuantity \in NewQuantityArgs :
          UpdateCartQuantity(k[1], k[2], newQuantity)
    \/ \E page \in ViewPages : PageLoad(page)

SpecView == InitView /\ [][ViewNext]_vars

(***************************************************************************)
(* The cart handlers and page loads on pages without cart table.           *)
(***************************************************************************)
InitLoad == Opened({AbsentCart} \cup StoredCarts, {AbsentSession}, {PlainPage})

LoadNext ==
    \/ CartNext /\ BagCardinality(cartCalls') <= 1
    \/ PageLoad(PlainPage)

SpecLoad == InitLoad /\ [][LoadNext]_vars

(***************************************************************************)
(* The cart handlers, login, logout and page loads with stored values that *)
(* are the empty text or a text that is not JSON.                          *)
(***************************************************************************)
\* a fixture email and an unknown one
CorruptEmailArgs == {"ann@x", "cat@x"}

InitCorrupt ==
    Opened({CorruptCart, EmptyCart}, {EmptySession, CorruptSession},
           ViewPages \cup {AccountPage})

CorruptNext ==
    \/ ViewNext /\ (JsonParseThrows(cartStore') \/ Len(GetCart(cartStore')) <= 1)
    \/ PageLoad(AccountPage)
    \/ LogoutUser
    \/ Navigate
    \/ \E email \in CorruptEmailArgs : LoginUserCached(email, "pw5")
    \/ \E email \in CorruptEmailArgs : UserCallSuspend("login", email, "pw5")
    \/ \E n \in 1..MaxUserCalls, ok \in BOOLEAN : UserCallResume(n, ok)
    \/ \E ok \in BOOLEAN : DisplayProductsResume(ok)

SpecCorrupt == InitCorrupt /\ [][CorruptNext]_vars

(***************************************************************************)
(* Properties of login and logout.                                         *)
(***************************************************************************)
\* the emails registered in this tab before call number n was made
RegisteredBefore(n) == {registered[j].email : j \in 1..userCalls[n].seen}

\* C11: once registerUser(name, email, password) has succeeded for an email
\* that is not in the fixture, every later loginUser(email, password) in the
\* same tab whose user list is available succeeds and stores that user as the
\* current user, whatever logouts, other calls and page loads came between.
C11_RegisteredUserCanLogin ==
    [][\A email \in EmailArgs :
          /\ (email \in RegisteredEmails \ FixtureEmails /\ LoginUserCached(email, "pw"))
             => /\ Authenticates(sessionUsers, email, "pw")
                /\ sessionStore' = SaveCurrentUser(FindUser(sessionUsers, email))
          /\ \A n \in 1..Len(userCalls) :
                (/\ userCalls[n].op = "login"
                 /\ userCalls[n].email = email /\ userCalls[n].password = "pw"
                 /\ email \in RegisteredBefore(n) \ FixtureEmails
                 /\ UserCallResume(n, TRUE))
                => /\ Authenticates(FetchedUsers(TRUE), email, "pw")
                   /\ sessionStore'.kind = "json" /\ sessionStore'.user.email = email
      ]_vars

\* the outcome of a loginUser call that fails: the alert, the return value
\* false, on which the submit listener starts no navigation, and the session
\* record and the links as they were
LoginFails ==
    /\ lastFailure' = "Invalid email or password."
    /\ returned' = "false"
    /\ navigation' = navigation
    /\ sessionStore' = sessionStore
    /\ navLoggedIn' = navLoggedIn

\* C12: a loginUser call with a known email and a wrong password and one with
\* an unknown email end alike: the same message, the same return value
\* (false, so the login form stays), and the session record and the
\* navigation as they were, whether or not a user was logged in.
C12_LoginFailuresAlike ==
    [][/\ \A email \in EmailArgs, password \in PasswordArgs :
             (LoginUserCached(email, password)
              /\ ~Authenticates(sessionUsers, email, password))
             => LoginFails
       /\ \A n \in 1..Len(userCalls), ok \in BOOLEAN :
             (/\ userCalls[n].op = "login"
              /\ UserCallResume(n, ok)
              /\ ~Authenticates(FetchedUsers(ok), userCalls[n].email,
                                userCalls[n].password))
             => LoginFails
      ]_vars

\* a login has just failed while a registered user is logged in and the
\* directory holds the fixture users
C12_Witness ==
    /\ lastFailure = "Invalid email or password."
    /\ returned = "false"
    /\ sessionStore.kind = "json"
    /\ navLoggedIn
    /\ Len(registered) = 1
    /\ FindUser(sessionUsers, "ann@x") # Null

\* C13: logoutUser leaves the session record absent, removing it when there
\* is one and changing nothing of the stores when there is none; clearing
\* twice gives what clearing once gives; the persisted cart is never changed.
C13_LogoutLeavesAbsent ==
    [][LogoutUser
       => /\ sessionStore' = AbsentSession
          /\ ~navLoggedIn'
          /\ ClearCurrentUser(sessionStore') = sessionStore'
          /\ sessionStore = AbsentSession => sessionStore' = sessionStore
          /\ cartStore' = cartStore
      ]_vars

\* nobody is logged in although a registration, which logs its user in, has
\* succeeded on this page, and the profile holds a cart
C13_Witness ==
    /\ sessionStore = AbsentSession
    /\ ~navLoggedIn
    /\ Len(registered) >= 1
    /\ Len(sessionUsers) > Len(UsersJson)
    /\ navigation = "index.html"
    /\ Len(GetCart(cartStore)) = 1

(***************************************************************************)
(* Properties of the reads of stored values.                               *)
(***************************************************************************)
\* C14: getCart returns the persisted cart when it decodes and the empty
\* sequence, without a fault, when no cart is persisted and when the persisted
\* value is not decodable; so no cart handler and no badge update on an
\* undecodable cart ends in a fault.
C14_CorruptCartReadsEmpty ==
    /\ cartStore.kind = "json" => GetCart(cartStore) = cartStore.lines
    /\ cartStore.kind # "json" => GetCart(cartStore) = <<>>
    /\ cartStore.kind # "json" => badge = Num(0)
    /\ JsonParseThrows(cartStore) => lastFailure # UncaughtSyntaxError

\* C15: getCurrentUser returns none, without a fault, when the session record
\* is not decodable as when it is absent, and the navigation then shows the
\* logged-out links.
C15_CorruptSessionReadsNone ==
    sessionStore.kind # "json"
    => /\ GetCurrentUser(sessionStore) = Null
       /\ ~JsonParseThrows(cartStore)
            => (~navLoggedIn /\ lastFailure # UncaughtSyntaxError)

(***************************************************************************)
(* Properties of the lines of the cart.                                    *)
(***************************************************************************)
\* the line of `cart` for product `id` in size `size`, as a set
LineOf(cart, id, size) == {cart[i] : i \in LinesOf(cart, id, size)}

\* the step is an addToCart call for (productId, size) that resumes with its
\* product found
AddResumes(productId, size) ==
    \E call \in BagToSet(cartCalls) :
        /\ call.productId = productId /\ call.size = size
        /\ AddToCartResume(call, TRUE)

\* the step is a cart handler called for (productId, size)
Targets(productId, size) ==
    \/ AddResumes(productId, size)
    \/ RemoveFromCart(productId, size)
    \/ \E newQuantity \in NewQuantityArgs :
          UpdateCartQuantity(productId, size, newQuantity)

\* C16: for two sizes s1 # s2 of a product, an addToCart for s1 leaves a line
\* of its own for s1, and no addToCart, updateCartQuantity or removeFromCart
\* for (product, s1) changes the line of (product, s2) or its presence.
C16_SizesAreIndependent ==
    [][\A k \in ProductKeyArgs, other \in ProductKeyArgs :
          (k[1] = other[1] /\ k[2] # other[2])
          => LET id == ParseInt10(k[1])
             IN  /\ \/ LineOf(GetCart(cartStore'), id, other[2])
                            = LineOf(Cart, id, other[2])
                    \/ ~Targets(k[1], k[2])
                 /\ \/ /\ Cardinality(LinesOf(GetCart(cartStore'), id, k[2])) = 1
                       /\ LinesOf(GetCart(cartStore'), id, k[2])
                              \cap LinesOf(GetCart(cartStore'), id, other[2]) = {}
                    \/ ~AddResumes(k[1], k[2])
      ]_vars

\* the Tee has a line in S with quantity 2 and a line in M with quantity 1
C16_Witness ==
    \E i, j \in 1..Len(Cart) :
        /\ Cart[i].id = 1 /\ Cart[i].size = "S" /\ Cart[i].quantity = Num(2)
        /\ Cart[j].id = 1 /\ Cart[j].size = "M" /\ Cart[j].quantity = Num(1)

\* C17: an addToCart call reads and writes the cart only after its lookup has
\* resolved, and with other calls suspended at the same time no update is
\* lost: the call that resumes adds its quantity to what the cart holds at
\* that moment, so the sum of the quantities grows by exactly its (numeric)
\* quantity and the line count by one for a new line and not at all otherwise;
\* the first of two overlapping addToCart(P, 1, s) leaves one line of quantity
\* 1, which the second raises to 2.
C17_NoLostUpdate ==
    [][/\ \A a \in AcceptedAdds :
             AddToCartCall(a[1], a[2], a[3]) => cartStore' = cartStore
       /\ \A call \in BagToSet(cartCalls) :
             (/\ call.productId # "9"
              /\ call.quantity.t = "num"
              /\ BagCardinality(cartCalls) >= 2
              /\ AddToCartResume(call, TRUE))
             => LET id == ParseInt10(call.productId)
                    before == LinesOf(Cart, id, call.size)
                IN  /\ ItemCount(cartStore') = JsAdd(ItemCount(cartStore),
                                                     JsonNumber(call.quantity))
                    /\ Len(GetCart(cartStore'))
                          = Len(Cart) + (IF before = {} THEN 1 ELSE 0)
                    /\ (CopiesIn(call, cartCalls) = 2 /\ before = {}
                        /\ call.quantity = Num(1))
                       => LineOf(GetCart(cartStore'), id, call.size)
                            = {NewLine(ProductsJson(productPrice)[id], Num(1), call.size)}
      ]_vars

\* one of two suspended addToCart("2", 1, "S") calls has resumed and written
\* its line; the other is still suspended
C17_Witness ==
    /\ cartCalls = SetToBag({[productId |-> "2", quantity |-> Num(1), size |-> "S"]})
    /\ Len(Cart) = 1
    /\ Cart[1].id = 2 /\ Cart[1].size = "S" /\ Cart[1].quantity = Num(1)
    /\ lastFailure = "none"

\* C18: cart handlers change the line they are called for and nothing else,
\* and keep the order of insertion: addToCart appends a new line at the end
\* and changes only the quantity of an existing one; updateCartQuantity with
\* n > 0 sets the quantity of its line to n in place; removeFromCart deletes
\* its line; and without a matching line the two leave the cart as it is.
\* (An addToCart that resumes takes its call out of cartCalls; the other two
\* handlers leave cartCalls alone.)
C18_OnlyTargetLineChanges ==
    [][\A k \in KeyArgs :
          LET id == ParseInt10(k[1])
              i == FindIndex(Cart, id, k[2])
              after == GetCart(cartStore')
              without == SubSeq(Cart, 1, i - 1) \o SubSeq(Cart, i + 1, Len(Cart))
          IN  /\ \/ k[1] = "9"
                 \/ cartCalls' = cartCalls
                 \/ IF i = 0
                    THEN /\ Len(after) = Len(Cart) + 1
                         /\ SubSeq(after, 1, Len(Cart)) = Cart
                         /\ after[Len(after)].id = id
                         /\ after[Len(after)].size = k[2]
                    ELSE /\ Len(after) = Len(Cart)
                         /\ after = [Cart EXCEPT ![i].quantity = after[i].quantity]
                 \/ ~AddResumes(k[1], k[2])
              /\ \/ after = (IF i = 0 THEN Cart ELSE without)
                 \/ cartCalls' # cartCalls
                 \/ ~RemoveFromCart(k[1], k[2])
              /\ \A newQuantity \in NewQuantityArgs :
                    \/ cartCalls' # cartCalls
                    \/ after = (IF i = 0 THEN Cart
                                ELSE IF JsGtZero(newQuantity)
                                THEN [Cart EXCEPT ![i].quantity = newQuantity]
                                ELSE without)
                    \/ ~UpdateCartQuantity(k[1], k[2], newQuantity)
      ]_vars

\* three lines in an order that is not the order of the product ids, the
\* middle one with a quantity that a handler has raised
C18_Witness ==
    /\ Len(Cart) = 3
    /\ Cart[1].id = 2
    /\ Cart[2].id = 1 /\ Cart[2].quantity = Num(2)
    /\ Cart[3].id = 1 /\ Cart[3].quantity = Num(1)

(***************************************************************************)
(* Properties of the views.                                                *)
(***************************************************************************)
\* C19: while the page shows the cart table, its rows and its grand total
\* are the lines and getCartTotal() of the persisted cart after the page load
\* and after every cart mutation that has completed, addToCart included.
C19_CartTableShowsCart ==
    cartView.mounted => cartView = DisplayCartItems(cartStore)

\* the quantities of the lines of `cart`, summed (a quantity stored as null
\* counts as 0)
RECURSIVE QuantitySum(_)
QuantitySum(cart) ==
    IF cart = <<>> THEN 0
    ELSE ToNumber(Head(cart).quantity).n + QuantitySum(Tail(cart))

\* C20: after the page load and after every handler that writes the cart, the
\* badge shows the sum of the quantities of the lines of the persisted cart,
\* 0 for an empty cart.
C20_BadgeShowsQuantitySum ==
    /\ badge = Num(QuantitySum(Cart))
    /\ Cart = <<>> => badge = Num(0)

\* the profile's cart of two lines has got a third, an addToCart is
\* suspended, and the badge shows the five pieces
C20_Witness ==
    /\ Len(Cart) = 3
    /\ Cart[1].id = 2 /\ Cart[2].quantity = Num(2)
    /\ badge = Num(5)
    /\ BagCardinality(cartCalls) = 1

(***************************************************************************)
(* Properties of the session record.                                       *)
(***************************************************************************)
\* the session record is the user of directory `users` with these credentials,
\* the navigation shows the account and logout links, and the submit listener
\* has started the navigation to account.html
LoggedInAs(users, email, password) ==
    /\ sessionStore'.kind = "json"
    /\ GetCurrentUser(sessionStore') = FindUser(users, email)
    /\ GetCurrentUser(sessionStore').email = email
    /\ GetCurrentUser(sessionStore').password = password
    /\ \E i \in 1..Len(sessionUsers') : sessionUsers'[i] = GetCurrentUser(sessionStore')
    /\ navLoggedIn'
    /\ navigation' = "account.html"

\* the step ends a submit listener's registerUser or loginUser call, or is
\* logoutUser
UserCallEnds ==
    \/ LogoutUser
    \/ \E email \in EmailArgs : RegisterUserCached(email, "pw")
    \/ \E email \in EmailArgs, password \in PasswordArgs :
          LoginUserCached(email, password)
    \/ \E n \in 1..Len(userCalls), ok \in BOOLEAN : UserCallResume(n, ok)

\* C21: a loginUser call that succeeds leaves the directory user with the
\* email and password of the call as the session record, a registerUser call
\* that succeeds leaves the user it has just created; either replaces the
\* record that was there, so the record is one user; and after every login,
\* register and logout call, and after the load of the page such a call
\* navigates to, the navigation shows the account and logout links exactly
\* when a session record is stored.  (A call has succeeded when it returns
\* true.)
C21_SessionIsLastLogin ==
    [][/\ \A email \in EmailArgs, password \in PasswordArgs :
             (returned' = "true" /\ LoginUserCached(email, password))
             => LoggedInAs(sessionUsers, email, password)
       /\ \A n \in 1..Len(userCalls), ok \in BOOLEAN :
             (/\ userCalls[n].op = "login"
              /\ returned' = "true"
              /\ UserCallResume(n, ok))
             => LoggedInAs(FetchedUsers(ok), userCalls[n].email, userCalls[n].password)
       /\ \A email \in EmailArgs :
             (returned' = "true" /\ RegisterEnds(email))
             => /\ LoggedInAs(sessionUsers', email, "pw")
                /\ Len(registered') = Len(registered) + 1
                /\ GetCurrentUser(sessionStore') = sessionUsers'[Len(sessionUsers')]
                /\ GetCurrentUser(sessionStore').id = registered'[Len(registered')].id
       /\ \/ navLoggedIn' = (sessionStore' # AbsentSession)
          \/ ~(UserCallEnds \/ Navigate)
      ]_vars

\* the fixture user ann is the current user on a page where cat has
\* registered, which had made cat the current user
C21_Witness ==
    /\ sessionStore = SaveCurrentUser(UsersJson[1])
    /\ navLoggedIn
    /\ returned = "true"
    /\ navigation = "account.html"
    /\ Len(registered) = 1 /\ registered[1].email = "cat@x"
    /\ FindUser(sessionUsers, "cat@x") # Null

(***************************************************************************)
(* Properties of the directory within one page.                            *)
(***************************************************************************)
\* C22: on a page, every user whose registration has succeeded is in the
\* directory, with the id the registration gave, after every later fetchUsers
\* of a login or register call, whenever its fetch was started and whether or
\* not it succeeds.  (Stated for the emails that are not in the fixture.)
C22_RegisteredUsersStay ==
    \A j \in 1..Len(registered) :
        registered[j].email \notin FixtureEmails
        => \E i \in 1..Len(sessionUsers) :
              /\ sessionUsers[i].email = registered[j].email
              /\ sessionUsers[i].id = registered[j].id

=============================================================================
